---- MODULE Spec2Model ----
(***************************************************************************)
(* Model of bytewax's periodic_epoch_source                                *)
(* (src/src/execution/periodic_epoch.rs): a timely source operator that    *)
(* polls an InputReader, stamps items with the current epoch, and every    *)
(* epoch_length of system time emits a recovery snapshot and moves both of *)
(* its capabilities to the next epoch.                                     *)
(*                                                                         *)
(* An Option<Capability> is a sequence of length <= 1: <<>> is None and    *)
(* <<t>> is Some(capability at time t).  A frontier is a set of times.     *)
(***************************************************************************)
EXTENDS Integers, Sequences, FiniteSets, TLC

\* ------------------------------------------------------------------ bounds
MaxStart == 1        \* start_at ranges over 0..MaxStart
MaxEpochLength == 2  \* epoch_length ranges over 0..MaxEpochLength
MaxItems == 2        \* the reader's stream holds 0..MaxItems items
MaxTime == 5         \* the system clock ranges over 0..MaxTime
MaxDelay == 1        \* time that may pass inside one activation

VARIABLES
    start_at,           \* argument start_at
    epoch_length,       \* argument epoch_length
    num_items,          \* length of the stream behind `reader`
    reader_pos,         \* how many items `reader` has delivered
    probe,              \* frontier seen through the ProbeHandle
    now,                \* the system clock (Instant::now())
    output_cap,         \* Option<Capability> of the data output
    state_update_cap,   \* Option<Capability> of the state-update output
    eof,                \* closure variable eof
    epoch_started,      \* closure variable epoch_started
    activated,          \* an activation requested through `activator` is pending
    output_stream,      \* records given on the data output, in order
    state_update_stream,\* records given on the state-update output, in order
    panicked,           \* the assert! of the closure failed
    polled,             \* reader.next() has been called at least once
    blocked,            \* since the last rollover an activation found the gate
                        \* closed while the clock had elapsed
    act                 \* what the last step did (calls of the last activation)

vars == <<start_at, epoch_length, num_items, reader_pos, probe, now,
          output_cap, state_update_cap, eof, epoch_started, activated,
          output_stream, state_update_stream, panicked, polled, blocked, act>>

\* ------------------------------------------------------- pure helpers
\* Option<Capability>
None == <<>>
Some(t) == <<t>>
is_some(cap) == cap # None
time(cap) == cap[1]

\* init_caps.pop().map(|cap| cap.delayed(&start_at))
delayed(t) == Some(t)

\* mutant: the downgrade is lost
downgrade_lost(cap, t) == cap

\* cap.downgrade(&t)
downgrade(cap, t) == Some(t)

\* mutant: an epoch is skipped
next_epoch_skipping(epoch) == epoch + 2

\* let next_epoch = epoch + 1;
next_epoch(epoch) == epoch + 1

\* probe.less_than(epoch): some frontier element is strictly less than epoch
less_than(frontier, epoch) == \E f \in frontier : f < epoch

\* epoch_started.elapsed(), read when the clock shows n
elapsed(n, started) == n - started

\* mutant: the comparison is not strict
is_elapsed_or_equal(n, started, len) == elapsed(n, started) >= len

\* epoch_started.elapsed() > epoch_length
is_elapsed(n, started, len) == elapsed(n, started) > len

\* reader.snapshot(): the resumable position of the reader
snapshot(pos) == pos

\* the first k items delivered by a reader reconstructed from the snapshot
\* snap: it resumes right after the position the snapshot recorded
ResumedItems(snap, k) == [i \in 1..k |-> snap + i]

\* the results reader.next() may give at position pos of a stream of n items
ReaderResults(pos, n) ==
    {"Pending"} \cup (IF pos < n THEN {"Item"} ELSE {"None"})

\* StateUpdate(StateRecoveryKey{step_id, state_key, epoch},
\*             StateOp::Upsert(State{snapshot, next_awake: None}))
StateUpdate(epoch, snap) ==
    [epoch |-> epoch, op |-> "Upsert", snapshot |-> snap, next_awake |-> "None"]

\* number of records given so far on both outputs
Emitted == Len(output_stream) + Len(state_update_stream)

\* ------------------------------------------------------------- Init
Init ==
    /\ start_at \in 0..MaxStart
    /\ epoch_length \in 0..MaxEpochLength
    /\ num_items \in 0..MaxItems
    /\ reader_pos = 0
    /\ probe = {0}
    /\ now = 0
    /\ state_update_cap = delayed(start_at)
    /\ output_cap = delayed(start_at)
    /\ eof = FALSE
    /\ epoch_started = now
    /\ activated = TRUE
    /\ output_stream = <<>>
    /\ state_update_stream = <<>>
    /\ panicked = FALSE
    /\ polled = FALSE
    /\ blocked = FALSE
    /\ act = [kind |-> "build", calls |-> <<>>, live |-> FALSE, epoch |-> 0,
              gate |-> FALSE, elapsed |-> 0, rollover |-> FALSE, res |-> "-",
              polled |-> FALSE, blocked |-> FALSE]

\* --------------------------------------------- the activation closure
\* if let (Some(output_cap), Some(state_update_cap)) = (.., ..)
Live == is_some(output_cap) /\ is_some(state_update_cap)

\* assert!(output_cap.time() == state_update_cap.time())
AssertHolds == time(output_cap) = time(state_update_cap)

\* let epoch = output_cap.time();
Epoch == time(output_cap)

\* mutant: the probe is not consulted
GateIgnored == Live

\* if !probe.less_than(epoch)
GateOpen == Live /\ ~less_than(probe, Epoch)

\* mutant: no rollover before the reader has been polled
RolloverOnlyAfterPoll ==
    GateOpen /\ polled /\ is_elapsed(now, epoch_started, epoch_length)

\* if epoch_started.elapsed() > epoch_length  (inside the gate)
Rollover == GateOpen /\ is_elapsed(now, epoch_started, epoch_length)

\* mutant: the update is given after the downgrade, at the next epoch
GiveStateUpdateAfterDowngrade(stream, cap, update, seq, at) ==
    Append(stream,
           [time |-> time(cap) + 1, update |-> update, seq |-> seq, at |-> at])

\* state_update_wrapper.activate().session(&state_update_cap).give(update):
\* the record carries the time of the capability the session was opened with
GiveStateUpdate(stream, cap, update, seq, at) ==
    Append(stream, [time |-> time(cap), update |-> update, seq |-> seq, at |-> at])

\* mutant: the item taken from the reader is not given
GiveItemLost(stream, cap, item, seq, at) == stream

\* output_wrapper.activate().session(&output_cap).give(item)
GiveItem(stream, cap, item, seq, at) ==
    Append(stream, [time |-> time(cap), item |-> item, seq |-> seq, at |-> at])

\* output_cap after the rollover block
OutputCapAfterRollover ==
    IF Rollover THEN downgrade(output_cap, next_epoch(Epoch)) ELSE output_cap

\* mutant: only output_cap is downgraded
StateUpdateCapNotDowngraded == state_update_cap

\* state_update_cap after the rollover block
StateUpdateCapAfterRollover ==
    IF Rollover THEN downgrade(state_update_cap, next_epoch(Epoch))
    ELSE state_update_cap

\* mutant: the rollover block loops and closes two epochs in one activation
StateUpdatesInLoop ==
    IF Rollover
    THEN GiveStateUpdate(
             GiveStateUpdate(state_update_stream, state_update_cap,
                             StateUpdate(Epoch, snapshot(reader_pos)),
                             Emitted + 1, now),
             downgrade(state_update_cap, next_epoch(Epoch)),
             StateUpdate(next_epoch(Epoch), snapshot(reader_pos)),
             Emitted + 2, now)
    ELSE state_update_stream

\* mutant: no state update for an epoch in which the reader made no progress
StateUpdatesOnlyOnProgress ==
    IF Rollover /\ reader_pos >
                     (IF state_update_stream = <<>> THEN 0
                      ELSE state_update_stream[Len(state_update_stream)]
                               .update.snapshot)
    THEN GiveStateUpdate(state_update_stream, state_update_cap,
                         StateUpdate(Epoch, snapshot(reader_pos)),
                         Emitted + 1, now)
    ELSE state_update_stream

\* mutant: the rollover gives no state update
StateUpdatesNotGiven == state_update_stream

\* the state-update output after the rollover block
StateUpdatesAfterRollover ==
    IF Rollover
    THEN GiveStateUpdate(state_update_stream, state_update_cap,
                         StateUpdate(Epoch, snapshot(reader_pos)),
                         Emitted + 1, now)
    ELSE state_update_stream

\* mutant: a closed gate restarts the epoch's clock
EpochStartedResetWhenBlocked(d) ==
    IF Rollover \/ (Live /\ ~GateOpen) THEN now + d ELSE epoch_started

\* mutant: the rollover moves epoch_started on by epoch_length
EpochStartedAdvancedByLength(d) ==
    IF Rollover THEN epoch_started + epoch_length ELSE epoch_started

\* mutant: the rollover does not reset epoch_started
EpochStartedNotReset(d) == epoch_started

\* epoch_started after the rollover block; Instant::now() shows now + d
EpochStartedAfterRollover(d) == IF Rollover THEN now + d ELSE epoch_started

\* mutant: the item is given under the capability as it was before the rollover
ItemCapBeforeRollover == output_cap

\* the capability the session of the item is opened with
ItemCap == OutputCapAfterRollover

\* mutant: Ready(None) does not set eof
EofNeverSet(r) == eof

\* eof after the match on reader.next() giving r
EofAfterPoll(r) == IF GateOpen /\ r = "None" THEN TRUE ELSE eof

\* mutant: only state_update_cap is dropped at eof
OutputCapKept(r) == OutputCapAfterRollover

\* output_cap when the closure returns: if eof { output_cap = None; .. }
OutputCapAtReturn(r) ==
    IF EofAfterPoll(r) THEN None ELSE OutputCapAfterRollover

\* mutant: only output_cap is dropped at eof
StateUpdateCapKept(r) == StateUpdateCapAfterRollover

\* state_update_cap when the closure returns: if eof { .. state_update_cap = None; }
StateUpdateCapAtReturn(r) ==
    IF EofAfterPoll(r) THEN None ELSE StateUpdateCapAfterRollover

\* mutant: the activator is re-armed only when the gate was open
RearmedOnlyIfGateOpen(r) == GateOpen /\ ~EofAfterPoll(r)

\* if eof { .. } else { activator.activate(); }
Rearmed(r) == ~EofAfterPoll(r)

\* reader.next() has been called by the end of this activation
PolledAfter == polled \/ GateOpen

\* the closure found probe.less_than(epoch) true while
\* epoch_started.elapsed() > epoch_length, and has not rolled over since
BlockedAfter ==
    IF Rollover THEN FALSE
    ELSE IF Live /\ ~GateOpen /\ is_elapsed(now, epoch_started, epoch_length)
         THEN TRUE
         ELSE blocked

\* the calls one activation makes, in program order
Calls(r) ==
    (IF Live
     THEN <<"assert", "less_than">>
          \o (IF GateOpen
              THEN <<"elapsed">>
                   \o (IF Rollover
                       THEN <<"snapshot", "give_state_update",
                              "downgrade_output_cap",
                              "downgrade_state_update_cap", "now">>
                       ELSE <<>>)
                   \o <<"next">>
                   \o (IF r = "Item" THEN <<"give_item">> ELSE <<>>)
              ELSE <<>>)
     ELSE <<>>)
    \o (IF EofAfterPoll(r) THEN <<"drop_caps">> ELSE <<"activate">>)

\* One run of the closure `move |_input_frontiers| { ... }`.
\* r is what reader.next() gives if it is called; d is the time that passes
\* between the elapsed() check and the Instant::now() of a rollover.
Activate(d, r) ==
    /\ ~panicked
    /\ r \in ReaderResults(reader_pos, num_items)
    /\ now + d <= MaxTime
    /\ (~Rollover => d = 0)
    /\ UNCHANGED <<start_at, epoch_length, num_items, probe>>
    /\ IF Live /\ ~AssertHolds
       THEN /\ panicked' = TRUE
            /\ act' = [kind |-> "activate", calls |-> <<"assert", "panic">>,
                       live |-> TRUE, epoch |-> Epoch, gate |-> FALSE,
                       elapsed |-> 0, rollover |-> FALSE, res |-> "-",
                       polled |-> polled, blocked |-> blocked]
            /\ UNCHANGED <<reader_pos, now, output_cap, state_update_cap, eof,
                           epoch_started, activated, output_stream,
                           state_update_stream, polled, blocked>>
       ELSE /\ panicked' = FALSE
            /\ state_update_stream' = StateUpdatesAfterRollover
            /\ now' = now + d
            /\ epoch_started' = EpochStartedAfterRollover(d)
            /\ output_stream' =
                   IF GateOpen /\ r = "Item"
                   THEN GiveItem(output_stream, ItemCap,
                                 reader_pos + 1,
                                 Len(StateUpdatesAfterRollover)
                                     + Len(output_stream) + 1,
                                 now + d)
                   ELSE output_stream
            /\ reader_pos' =
                   IF GateOpen /\ r = "Item" THEN reader_pos + 1 ELSE reader_pos
            /\ eof' = EofAfterPoll(r)
            /\ output_cap' = OutputCapAtReturn(r)
            /\ state_update_cap' = StateUpdateCapAtReturn(r)
            /\ activated' = Rearmed(r)
            /\ polled' = PolledAfter
            /\ blocked' = BlockedAfter
            /\ act' = [kind |-> "activate", calls |-> Calls(r), live |-> Live,
                       epoch |-> IF Live THEN Epoch ELSE 0,
                       gate |-> GateOpen,
                       elapsed |-> IF GateOpen
                                   THEN elapsed(now, epoch_started) ELSE 0,
                       rollover |-> Rollover,
                       res |-> IF GateOpen THEN r ELSE "-",
                       polled |-> polled, blocked |-> blocked]

\* --------------------------------------------------- the environment
NoAct(kind) ==
    [kind |-> kind, calls |-> <<>>, live |-> FALSE, epoch |-> 0,
     gate |-> FALSE, elapsed |-> 0, rollover |-> FALSE, res |-> "-",
     polled |-> FALSE, blocked |-> FALSE]

\* system time passes between activations
Tick ==
    /\ now < MaxTime
    /\ now' = now + 1
    /\ act' = NoAct("tick")
    /\ UNCHANGED <<start_at, epoch_length, num_items, reader_pos, probe,
                   output_cap, state_update_cap, eof, epoch_started, activated,
                   output_stream, state_update_stream, panicked, polled,
                   blocked>>

\* The downstream frontier advances.  It cannot pass a time this operator
\* still holds a capability for; once both capabilities are dropped it empties.
ProbeAdvance(f) ==
    /\ probe # {}
    /\ IF is_some(output_cap) \/ is_some(state_update_cap)
       THEN /\ \A g \in probe : g < f
            /\ is_some(output_cap) => f <= time(output_cap)
            /\ is_some(state_update_cap) => f <= time(state_update_cap)
            /\ probe' = {f}
       ELSE probe' = {}
    /\ act' = NoAct("probe")
    /\ UNCHANGED <<start_at, epoch_length, num_items, reader_pos, now,
                   output_cap, state_update_cap, eof, epoch_started, activated,
                   output_stream, state_update_stream, panicked, polled,
                   blocked>>

Next ==
    \/ \E d \in 0..MaxDelay, r \in {"Pending", "Item", "None"} : Activate(d, r)
    \/ Tick
    \/ \E f \in 0..(MaxStart + MaxTime) : ProbeAdvance(f)

Spec == Init /\ [][Next]_vars

\* ------------------------------------------------------- fairness
\* both capabilities have been dropped
Done == output_cap = None /\ state_update_cap = None

\* the host runs an activation requested through activator.activate()
ScheduledActivate ==
    activated /\ \E d \in 0..MaxDelay, r \in {"Pending", "Item", "None"} :
                     Activate(d, r)

\* a poll of the reader that does not give Poll::Pending
ReaderProgress ==
    GateOpen /\ \E d \in 0..MaxDelay, r \in {"Item", "None"} : Activate(d, r)

\* downstream catches up with the epoch this operator holds
ProbeCatchUp == Live /\ less_than(probe, Epoch) /\ ProbeAdvance(Epoch)

\* Requested activations are eventually run, the reader does not stay pending
\* for ever while it is polled, and downstream eventually catches up.
LiveSpec ==
    /\ Init /\ [][Next]_vars
    /\ WF_vars(ScheduledActivate)
    /\ WF_vars(ReaderProgress)
    /\ WF_vars(ProbeCatchUp)

\* ------------------------------------------------------------ claims
Last(stream) == stream[Len(stream)]

\* position of the first call named c in a sequence of calls (0 if absent)
CallIndex(calls, c) ==
    IF \E i \in DOMAIN calls : calls[i] = c
    THEN CHOOSE i \in DOMAIN calls :
             calls[i] = c /\ \A j \in 1..(i - 1) : calls[j] # c
    ELSE 0

\* the step is a run of the closure
ActivationStep == act'.kind = "activate"

\* the step is a run of the closure that took the rollover branch
RolloverStep == ActivationStep /\ act'.rollover

\* C1: whenever both capabilities are live (in particular at the start of
\* every activation) the data capability's time equals the snapshot
\* capability's time, so the assert! at the top of the closure never fails.
C1_CapsAgree ==
    /\ ~panicked
    /\ Live => time(output_cap) = time(state_update_cap)
    /\ act.kind = "activate" => CallIndex(act.calls, "panic") = 0

\* C1 witness: an activation that began with both capabilities live, after two
\* rollovers, an item and a probe change, left both capabilities live.
C1_Witness ==
    /\ act.kind = "activate" /\ act.live /\ Live
    /\ time(output_cap) >= start_at + 2
    /\ Len(output_stream) >= 1
    /\ probe # {0}

\* C2: every data item stamped t > start_at is preceded, in emission order,
\* by a state update stamped t - 1.
C2_SnapshotPrecedesNextEpochData ==
    \A i \in DOMAIN output_stream :
        output_stream[i].time > start_at =>
            \E j \in DOMAIN state_update_stream :
                /\ state_update_stream[j].time = output_stream[i].time - 1
                /\ state_update_stream[j].seq < output_stream[i].seq

\* C2 witness: a data item stamped later than start_at has been emitted.
C2_Witness ==
    \E i \in DOMAIN output_stream : output_stream[i].time > start_at

\* C3: a rollover gives exactly one StateUpdate, under state_update_cap while
\* it is still at the closing epoch (before either downgrade); the key's epoch
\* equals that timestamp, the op is Upsert with next_awake None; a step that
\* is not a rollover gives no StateUpdate.
C3_OneUpdatePerRollover ==
    [][IF RolloverStep
       THEN /\ Len(state_update_stream') = Len(state_update_stream) + 1
            /\ SubSeq(state_update_stream', 1, Len(state_update_stream))
                   = state_update_stream
            /\ Last(state_update_stream').time = time(state_update_cap)
            /\ Last(state_update_stream').update.epoch
                   = Last(state_update_stream').time
            /\ Last(state_update_stream').update.op = "Upsert"
            /\ Last(state_update_stream').update.next_awake = "None"
            /\ is_some(state_update_cap') =>
                   time(state_update_cap') = Last(state_update_stream').time + 1
            /\ CallIndex(act'.calls, "give_state_update") > 0
            /\ CallIndex(act'.calls, "give_state_update")
                   < CallIndex(act'.calls, "downgrade_output_cap")
            /\ CallIndex(act'.calls, "give_state_update")
                   < CallIndex(act'.calls, "downgrade_state_update_cap")
       ELSE state_update_stream' = state_update_stream]_vars

\* C3 witness: a second rollover has just given its state update.
C3_Witness ==
    /\ act.kind = "activate" /\ act.rollover
    /\ Len(state_update_stream) >= 2
    /\ Last(state_update_stream).time = act.epoch

\* C4: a data item carries the time output_cap has when it is given; in an
\* activation that rolls over from epoch e the item is stamped e + 1.
C4_ItemStampedWithCurrentCap ==
    [][Len(output_stream') # Len(output_stream) =>
           /\ Len(output_stream') = Len(output_stream) + 1
           /\ SubSeq(output_stream', 1, Len(output_stream)) = output_stream
           /\ is_some(output_cap) /\ is_some(output_cap')
           /\ Last(output_stream').time = time(output_cap')
           /\ Last(output_stream').time =
                  IF RolloverStep THEN time(output_cap) + 1
                  ELSE time(output_cap)]_vars

\* C4 witness: an activation rolled over from epoch e and gave an item
\* stamped e + 1.
C4_Witness ==
    /\ act.kind = "activate" /\ act.rollover /\ act.res = "Item"
    /\ Len(output_stream) >= 1
    /\ Last(output_stream).time = act.epoch + 1

\* C5: both capabilities start at start_at; across a step the capability time
\* stays or grows by exactly 1, it grows exactly in rollover steps, both
\* capabilities move to the same time, and the time never decreases.
C5_CapsAdvanceByOne ==
    /\ [](act.kind = "build" =>
             output_cap = Some(start_at) /\ state_update_cap = Some(start_at))
    /\ [][(Live /\ Live') =>
             /\ time(output_cap') \in {time(output_cap), time(output_cap) + 1}
             /\ time(state_update_cap') = time(output_cap')
             /\ time(state_update_cap') \in
                    {time(state_update_cap), time(state_update_cap) + 1}
             /\ (time(output_cap') = time(output_cap) + 1) <=> RolloverStep]_vars

\* C5 witness: both capabilities, started at a non-zero start_at, have been
\* moved by a rollover to the next epoch.
C5_Witness ==
    /\ start_at > 0
    /\ act.kind = "activate" /\ act.rollover /\ Live
    /\ time(output_cap) = act.epoch + 1
    /\ time(state_update_cap) = act.epoch + 1

\* C6 as stated: on each output, any two consecutive records carry
\* timestamps t1 then t2 with t2 = t1 or t2 = t1 + 1.
C6_AsStated ==
    /\ \A i \in 1..(Len(output_stream) - 1) :
           output_stream[i + 1].time \in
               {output_stream[i].time, output_stream[i].time + 1}
    /\ \A i \in 1..(Len(state_update_stream) - 1) :
           state_update_stream[i + 1].time \in
               {state_update_stream[i].time, state_update_stream[i].time + 1}

\* the state updates given between the i-th and the (i+1)-th data item
UpdatesBetween(i) ==
    {j \in DOMAIN state_update_stream :
        /\ output_stream[i].seq < state_update_stream[j].seq
        /\ state_update_stream[j].seq < output_stream[i + 1].seq}

\* C6 as amended: consecutive state updates carry t1 then t1 + 1; consecutive
\* data items carry t1 then t2 >= t1, where t2 - t1 is the number of rollovers
\* between the two items (more than 1 when the reader was pending throughout
\* a whole epoch).
C6_ConsecutiveTimestamps ==
    /\ \A i \in 1..(Len(state_update_stream) - 1) :
           state_update_stream[i + 1].time = state_update_stream[i].time + 1
    /\ \A i \in 1..(Len(output_stream) - 1) :
           /\ output_stream[i + 1].time >= output_stream[i].time
           /\ output_stream[i + 1].time - output_stream[i].time
                  = Cardinality(UpdatesBetween(i))

\* C6 witness: the reader was pending throughout a whole epoch, and two
\* consecutive data items are two epochs apart.
C6_Witness ==
    /\ Len(state_update_stream) >= 2
    /\ \E i \in 1..(Len(output_stream) - 1) :
           output_stream[i + 1].time = output_stream[i].time + 2

\* C7: the activation in which the reader gives end-of-stream drops both
\* capabilities; from then on every step leaves both dropped, gives no item and
\* no state update, and neither polls nor snapshots the reader; the two
\* capabilities are never one live and one dropped.
C7_EofIsTerminal ==
    /\ [](is_some(output_cap) <=> is_some(state_update_cap))
    /\ [][(ActivationStep /\ act'.res = "None") =>
             eof' /\ output_cap' = None /\ state_update_cap' = None]_vars
    /\ [][~Live =>
             /\ output_cap' = None /\ state_update_cap' = None
             /\ eof' = eof
             /\ output_stream' = output_stream
             /\ state_update_stream' = state_update_stream
             /\ reader_pos' = reader_pos
             /\ ActivationStep =>
                    /\ CallIndex(act'.calls, "next") = 0
                    /\ CallIndex(act'.calls, "snapshot") = 0
                    /\ CallIndex(act'.calls, "activate") = 0
                    /\ ~activated']_vars

\* C7 witness: the closure has run again after the activation that saw
\* end-of-stream, with items emitted before it.
C7_Witness ==
    /\ act.kind = "activate" /\ ~act.live
    /\ eof /\ output_cap = None /\ state_update_cap = None
    /\ Len(output_stream) >= 1

\* C8: an activation that finds probe.less_than(epoch) true gives no item and
\* no state update, calls neither reader.next() nor reader.snapshot(), leaves
\* both capabilities, epoch_started and eof as they were, and re-arms.
C8_ClosedGateFrame ==
    [][(ActivationStep /\ Live /\ less_than(probe, time(output_cap))) =>
           /\ UNCHANGED <<output_cap, state_update_cap, epoch_started, eof,
                          output_stream, state_update_stream, reader_pos>>
           /\ act'.calls = <<"assert", "less_than", "activate">>
           /\ activated']_vars

\* C8 witness: the closure ran with the gate closed while the clock had
\* elapsed and the reader still had items.
C8_Witness ==
    /\ act.kind = "activate" /\ act.live /\ ~act.gate
    /\ Live /\ less_than(probe, time(output_cap))
    /\ now - epoch_started > epoch_length
    /\ reader_pos < num_items
    /\ activated

\* the step gave a state update and moved the capabilities on
RolledOver ==
    /\ Len(state_update_stream') = Len(state_update_stream) + 1
    /\ epoch_started' >= now

\* C9 as stated: with both capabilities live, a rollover is performed iff the
\* gate is open and now - epoch_started >= epoch_length.
C9_AsStated ==
    [][(ActivationStep /\ Live) =>
           (RolledOver <=> (/\ ~less_than(probe, time(output_cap))
                            /\ now - epoch_started >= epoch_length))]_vars

\* C9 as amended: with both capabilities live, a rollover is performed iff the
\* gate is open and now - epoch_started > epoch_length; when the elapsed time
\* is exactly epoch_length no rollover is performed.
C9_RolloverIffGateOpenAndElapsed ==
    [][(ActivationStep /\ Live) =>
           /\ RolledOver <=> (/\ ~less_than(probe, time(output_cap))
                              /\ now - epoch_started > epoch_length)
           /\ RolloverStep <=> RolledOver]_vars

\* C9 witness: the closure ran with the gate open when exactly epoch_length
\* had elapsed, and did not roll over.
C9_Witness ==
    /\ act.kind = "activate" /\ act.live /\ act.gate
    /\ epoch_length > 0
    /\ act.elapsed = epoch_length
    /\ ~act.rollover
    /\ state_update_stream = <<>>

\* C10: at least epoch_length of system time lies between two successive
\* rollovers, and between the build of the operator (time 0) and the first.
C10_RolloversEpochLengthApart ==
    \A j \in DOMAIN state_update_stream :
        state_update_stream[j].at
            - (IF j = 1 THEN 0 ELSE state_update_stream[j - 1].at)
          >= epoch_length

\* C10 witness: two rollovers have happened with a non-zero epoch_length.
C10_Witness ==
    /\ epoch_length >= 1
    /\ Len(state_update_stream) >= 2

\* how many times the call named c occurs in a sequence of calls
CallCount(calls, c) == Cardinality({i \in DOMAIN calls : calls[i] = c})

\* C11: one activation gives at most one state update and moves the
\* capabilities by at most one epoch, also when epoch_length is zero; the
\* rollover block is not a loop.
C11_AtMostOneRolloverPerActivation ==
    [][/\ Len(state_update_stream') <= Len(state_update_stream) + 1
       /\ (Live /\ Live') =>
              /\ time(output_cap') <= time(output_cap) + 1
              /\ time(state_update_cap') <= time(state_update_cap) + 1
       /\ ActivationStep =>
              /\ CallCount(act'.calls, "snapshot") <= 1
              /\ CallCount(act'.calls, "give_state_update") <= 1
              /\ CallCount(act'.calls, "downgrade_output_cap") <= 1
              /\ CallCount(act'.calls, "downgrade_state_update_cap") <= 1
              /\ Len(state_update_stream') - Len(state_update_stream)
                     = CallCount(act'.calls, "give_state_update")]_vars

\* C11 witness: with epoch_length zero, a second rollover has happened, each
\* in an activation of its own.
C11_Witness ==
    /\ epoch_length = 0
    /\ act.kind = "activate" /\ act.rollover
    /\ Len(state_update_stream) = 2
    /\ state_update_stream[1].seq < state_update_stream[2].seq

\* the step is a run of the closure that finds both capabilities live and the
\* gate open
OpenGateStep ==
    ActivationStep /\ Live /\ ~less_than(probe, time(output_cap))

\* C12: an activation with the gate open and both capabilities live polls the
\* reader exactly once, after the rollover block; pending gives nothing, an
\* item is given at once and exactly once; the data output is always exactly
\* the items the reader has delivered, in delivery order.
C12_ItemsInDeliveryOrder ==
    /\ [](/\ Len(output_stream) = reader_pos
          /\ \A i \in DOMAIN output_stream : output_stream[i].item = i
          /\ \A i \in 1..(Len(output_stream) - 1) :
                 output_stream[i].seq < output_stream[i + 1].seq)
    /\ [][ActivationStep =>
             CallCount(act'.calls, "next") = IF OpenGateStep THEN 1 ELSE 0]_vars
    /\ [][OpenGateStep =>
             /\ RolloverStep =>
                    /\ CallIndex(act'.calls, "give_state_update")
                           < CallIndex(act'.calls, "next")
                    /\ CallIndex(act'.calls, "now")
                           < CallIndex(act'.calls, "next")
             /\ act'.res \in {"Pending", "None"} =>
                    /\ output_stream' = output_stream
                    /\ reader_pos' = reader_pos
                    /\ CallCount(act'.calls, "give_item") = 0
             /\ act'.res = "Item" =>
                    /\ reader_pos' = reader_pos + 1
                    /\ Len(output_stream') = Len(output_stream) + 1
                    /\ SubSeq(output_stream', 1, Len(output_stream))
                           = output_stream
                    /\ Last(output_stream').item = reader_pos + 1
                    /\ CallCount(act'.calls, "give_item") = 1]_vars

\* C12 witness: the reader's second item was given in an activation that
\* polled after a pending poll and a rollover.
C12_Witness ==
    /\ act.kind = "activate" /\ act.gate /\ act.res = "Item"
    /\ Len(output_stream) = 2
    /\ output_stream[2].item = 2
    /\ output_stream[2].time > output_stream[1].time

\* C13: an activation that ends with eof false re-arms the activator exactly
\* once, whatever the gate, the reader and the clock did; an activation that
\* ends with eof true does not re-arm.
C13_RearmUnlessEof ==
    [][ActivationStep =>
           IF eof'
           THEN CallCount(act'.calls, "activate") = 0 /\ ~activated'
           ELSE CallCount(act'.calls, "activate") = 1 /\ activated']_vars

\* C13 witness: an activation that found the gate closed has re-armed.
C13_Witness ==
    /\ act.kind = "activate" /\ act.live /\ ~act.gate
    /\ CallCount(act.calls, "activate") = 1
    /\ activated /\ ~eof
    /\ state_update_stream # <<>>

\* C14: if requested activations are eventually run, the reader reaches
\* end-of-stream after finitely many polls and the gate is eventually open for
\* the current epoch, both capabilities are eventually dropped; until then an
\* activation is always pending.
C14_EventuallyDone ==
    /\ <>Done
    /\ [](~Done => activated)

\* C14 witness: both capabilities were dropped after the reader delivered all
\* its items across a rollover and a closed gate.
C14_Witness ==
    /\ Done /\ eof
    /\ reader_pos = num_items /\ num_items = MaxItems
    /\ state_update_stream # <<>>
    /\ Last(output_stream).time > start_at

\* the step is the first poll of the reader, and it gives end-of-stream
FirstPollEofStep ==
    ActivationStep /\ ~polled /\ polled' /\ act'.res = "None"

\* once eof is set nothing more is given and the capabilities stay as they are
FrozenAfterEof ==
    eof => UNCHANGED <<output_stream, state_update_stream, output_cap,
                       state_update_cap, eof>>

\* C15 as stated: if the reader gives end-of-stream on its very first poll,
\* then whenever that poll happens the run gives no item and no state update,
\* never moves the capabilities past start_at, and drops both.
C15_AsStated ==
    [][FirstPollEofStep =>
           /\ output_stream' = <<>>
           /\ state_update_stream' = <<>>
           /\ ~act'.rollover
           /\ Done']_vars

\* C15 as amended: if the reader gives end-of-stream on its very first poll,
\* the run gives no item and drops both capabilities.  If no more than
\* epoch_length has elapsed since the build at that activation, no state
\* update is given and the capabilities never move past start_at; otherwise
\* that activation first rolls over: exactly one state update, stamped
\* start_at, is given and the capabilities are moved to start_at + 1 before
\* they are dropped.
C15_EofOnFirstPoll ==
    /\ [][FirstPollEofStep =>
             /\ output_stream' = <<>>
             /\ Done' /\ eof'
             /\ output_cap = Some(start_at) /\ state_update_cap = Some(start_at)
             /\ state_update_stream = <<>>
             /\ IF now - epoch_started > epoch_length
                THEN /\ act'.rollover
                     /\ Len(state_update_stream') = 1
                     /\ state_update_stream'[1].time = start_at
                     /\ state_update_stream'[1].update.epoch = start_at
                     /\ OutputCapAfterRollover = Some(start_at + 1)
                     /\ StateUpdateCapAfterRollover = Some(start_at + 1)
                ELSE /\ ~act'.rollover
                     /\ state_update_stream' = <<>>
                     /\ OutputCapAfterRollover = Some(start_at)
                     /\ StateUpdateCapAfterRollover = Some(start_at)]_vars
    /\ [][FrozenAfterEof]_vars

\* C15 witness: the first poll gave end-of-stream in an activation that ran
\* after the clock had elapsed, with a non-zero start_at; one state update
\* was given.
C15_Witness ==
    /\ act.kind = "activate" /\ ~act.polled /\ act.res = "None"
    /\ start_at > 0 /\ epoch_length > 0
    /\ act.rollover
    /\ Done
    /\ Len(state_update_stream) = 1
    /\ output_stream = <<>>

\* C16: an activation that rolls over from epoch e and then reads
\* end-of-stream gives exactly one state update stamped e and no item, moves
\* both capabilities to e + 1 and then drops both; nothing is ever stamped
\* e + 1 or later.
C16_EofAtRollover ==
    /\ [][(RolloverStep /\ act'.res = "None") =>
             /\ Len(state_update_stream') = Len(state_update_stream) + 1
             /\ SubSeq(state_update_stream', 1, Len(state_update_stream))
                    = state_update_stream
             /\ Last(state_update_stream').time = time(output_cap)
             /\ output_stream' = output_stream
             /\ OutputCapAfterRollover = Some(time(output_cap) + 1)
             /\ StateUpdateCapAfterRollover = Some(time(output_cap) + 1)
             /\ CallIndex(act'.calls, "downgrade_output_cap")
                    < CallIndex(act'.calls, "drop_caps")
             /\ CallIndex(act'.calls, "downgrade_state_update_cap")
                    < CallIndex(act'.calls, "drop_caps")
             /\ CallCount(act'.calls, "give_item") = 0
             /\ Done' /\ eof'
             /\ \A i \in DOMAIN output_stream' :
                    output_stream'[i].time <= time(output_cap)
             /\ \A j \in DOMAIN state_update_stream' :
                    state_update_stream'[j].time <= time(output_cap)]_vars
    /\ [][eof => /\ output_stream' = output_stream
                 /\ state_update_stream' = state_update_stream
                 /\ Done']_vars

\* C16 witness: after items were given, an activation rolled over and read
\* end-of-stream; the last state update is stamped with the closing epoch.
C16_Witness ==
    /\ act.kind = "activate" /\ act.rollover /\ act.res = "None"
    /\ Done
    /\ output_stream # <<>>
    /\ Last(state_update_stream).time = act.epoch
    /\ \A i \in DOMAIN output_stream : output_stream[i].time <= act.epoch

\* the items given on the data output with a timestamp of at least t, in order
ItemsFrom(t) ==
    LET AtOrAfter(rec) == rec.time >= t
        kept == SelectSeq(output_stream, AtOrAfter)
    IN  [k \in 1..Len(kept) |-> kept[k].item]

\* how many items were given on the data output with a timestamp of at most t
ItemsUpTo(t) ==
    Cardinality({i \in DOMAIN output_stream : output_stream[i].time <= t})

\* C17: the snapshot given for epoch e is taken before the poll of the
\* rollover activation and records the reader position after exactly the items
\* stamped <= e; a reader reconstructed from it delivers exactly the items the
\* run gave with timestamps >= e + 1, in the same order.
C17_SnapshotAlignment ==
    /\ \A j \in DOMAIN state_update_stream :
           LET e == state_update_stream[j].time
               snap == state_update_stream[j].update.snapshot
           IN  /\ snap = ItemsUpTo(e)
               /\ Len(ItemsFrom(e + 1)) <= num_items - snap
               /\ ItemsFrom(e + 1) = ResumedItems(snap, Len(ItemsFrom(e + 1)))
               /\ eof => Len(ItemsFrom(e + 1)) = num_items - snap
    /\ (act.kind = "activate" /\ act.rollover) =>
           CallIndex(act.calls, "snapshot") < CallIndex(act.calls, "next")

\* C17 witness: a finished run gave a snapshot taken after its first item, in
\* a rollover activation that also gave the second item.
C17_Witness ==
    /\ eof
    /\ \E j \in DOMAIN state_update_stream :
           /\ state_update_stream[j].update.snapshot = 1
           /\ ItemsFrom(state_update_stream[j].time + 1) = <<2>>
           /\ \E i \in DOMAIN output_stream :
                  output_stream[i].seq = state_update_stream[j].seq + 1

\* C18: once the clock has elapsed with the gate closed, the first activation
\* that finds the gate open rolls over, however recently the gate opened; no
\* state update for that epoch is given while the gate is closed.
C18_RolloverWhenGateOpens ==
    /\ [](blocked =>
             /\ Live
             /\ \A j \in DOMAIN state_update_stream :
                    state_update_stream[j].time < time(output_cap))
    /\ [][(OpenGateStep /\ blocked) =>
             /\ RolloverStep /\ RolledOver
             /\ Last(state_update_stream').time = time(output_cap)
             /\ ~blocked']_vars
    /\ [][(ActivationStep /\ Live /\ less_than(probe, time(output_cap))) =>
             /\ state_update_stream' = state_update_stream
             /\ (now - epoch_started > epoch_length) => blocked']_vars

\* C18 witness: the clock elapsed while the gate was closed, and the rollover
\* happened in the first activation that found the gate open.
C18_Witness ==
    /\ act.kind = "activate" /\ act.blocked /\ act.gate /\ act.rollover
    /\ epoch_length > 0
    /\ act.elapsed > epoch_length
    /\ ~blocked

\* C19: with both capabilities live at epoch e, the state updates given so far
\* are exactly one for each of start_at, .., e - 1, in increasing order,
\* whether or not an item was given in the epoch.
C19_OneSnapshotPerClosedEpoch ==
    Live =>
        /\ Len(state_update_stream) = time(output_cap) - start_at
        /\ \A j \in DOMAIN state_update_stream :
               /\ state_update_stream[j].time = start_at + j - 1
               /\ state_update_stream[j].update.epoch = start_at + j - 1
        /\ \A j \in 1..(Len(state_update_stream) - 1) :
               state_update_stream[j].seq < state_update_stream[j + 1].seq

\* C19 witness: two epochs were closed without any item, each with its
\* state update.
C19_Witness ==
    /\ Live
    /\ time(output_cap) = start_at + 2
    /\ Len(state_update_stream) = 2
    /\ output_stream = <<>>
    /\ num_items > 0

\* C20: epoch_started is the current time at the build, is set to the current
\* time by exactly the activations that roll over, after the give and both
\* downgrades, and is left unchanged by every other step.
C20_EpochStartedResetOnlyByRollover ==
    /\ [](act.kind = "build" => epoch_started = now)
    /\ [][IF RolloverStep
          THEN /\ epoch_started' = now'
               /\ CallIndex(act'.calls, "give_state_update")
                      < CallIndex(act'.calls, "now")
               /\ CallIndex(act'.calls, "downgrade_output_cap")
                      < CallIndex(act'.calls, "now")
               /\ CallIndex(act'.calls, "downgrade_state_update_cap")
                      < CallIndex(act'.calls, "now")
          ELSE epoch_started' = epoch_started]_vars

\* C20 witness: a rollover reset epoch_started to a clock reading later than
\* the one of its elapsed() check.
C20_Witness ==
    /\ act.kind = "activate" /\ act.rollover
    /\ epoch_started = now
    /\ state_update_stream # <<>>
    /\ now > Last(state_update_stream).at

====
